---------------------------- MODULE Spec2Model ----------------------------
(***************************************************************************)
(* Model of shipcat's manifest resolution and validation engine            *)
(* (src/src/manifest.rs): Manifest::completed / fill / implicits /         *)
(* secrets / merge / verify, validate and the quantity parsers.            *)
(*                                                                         *)
(* Strings whose characters the code inspects are sequences of             *)
(* one-character strings; Option<T> is a sequence of length 0 (None) or 1  *)
(* (Some); BTreeMap<String,String> is a function on a set of keys.         *)
(***************************************************************************)
EXTENDS Integers, Sequences, FiniteSets, TLC

VARIABLES fs, args, pc, mf, todo, reads, steps, outcome, ret, vres,
          call, base, queue, log, vout, prev

vars == <<fs, args, pc, mf, todo, reads, steps, outcome, ret, vres,
          call, base, queue, log, vout, prev>>

(***************************************************************************)
(* Bounds of the model.                                                    *)
(***************************************************************************)
\* number of env keys of the key pool a descriptor may use
NumKeys == 2
\* number of ports of the port pool a descriptor may expose
NumPorts == 2
\* number of runs (process invocations) on one descriptor set
MaxRuns == 2

(***************************************************************************)
(* Option<T>, Result<T>                                                    *)
(***************************************************************************)
None == << >>
Some(x) == <<x>>
is_none(o) == o = << >>
is_some(o) == o # << >>
unwrap(o) == o[1]

Ok(v) == [tag |-> "Ok", kind |-> "", val |-> v]
Err(k) == [tag |-> "Err", kind |-> k, val |-> << >>]
Panic(k) == [tag |-> "Panic", kind |-> k, val |-> << >>]

(***************************************************************************)
(* Characters and strings                                                  *)
(***************************************************************************)
\* the characters the model uses, in ASCII order
Ascii ==
  << "+", "-", ".", "/",
     "0", "1", "2", "3", "4", "5", "6", "7", "8", "9", ":",
     "A", "B", "C", "D", "E", "F", "G", "H", "I", "J", "K", "L", "M",
     "N", "O", "P", "Q", "R", "S", "T", "U", "V", "W", "X", "Y", "Z",
     "_",
     "a", "b", "c", "d", "e", "f", "g", "h", "i", "j", "k", "l", "m",
     "n", "o", "p", "q", "r", "s", "t", "u", "v", "w", "x", "y", "z",
     "~" >>

Code(c) == CHOOSE i \in 1..Len(Ascii) : Ascii[i] = c

Digits == <<"0", "1", "2", "3", "4", "5", "6", "7", "8", "9">>
Uppers == <<"A", "B", "C", "D", "E", "F", "G", "H", "I", "J", "K", "L", "M",
            "N", "O", "P", "Q", "R", "S", "T", "U", "V", "W", "X", "Y", "Z">>
Lowers == <<"a", "b", "c", "d", "e", "f", "g", "h", "i", "j", "k", "l", "m",
            "n", "o", "p", "q", "r", "s", "t", "u", "v", "w", "x", "y", "z">>

is_digit(c) == \E i \in 1..10 : Digits[i] = c
digit_value(c) == (CHOOSE i \in 1..10 : Digits[i] = c) - 1
is_lower(c) == \E i \in 1..26 : Lowers[i] = c

\* char::to_lowercase on the ASCII range
char_to_lowercase(c) ==
  IF \E i \in 1..26 : Uppers[i] = c
  THEN Lowers[CHOOSE i \in 1..26 : Uppers[i] = c]
  ELSE c

\* str::to_lowercase
to_lowercase(s) == [i \in 1..Len(s) |-> char_to_lowercase(s[i])]

\* str::replace for one-character patterns
replace(s, from, to) == [i \in 1..Len(s) |-> IF s[i] = from THEN to ELSE s[i]]

\* str::starts_with
starts_with(s, p) == Len(s) >= Len(p) /\ SubSeq(s, 1, Len(p)) = p

\* str::ends_with
ends_with(s, p) == Len(s) >= Len(p) /\ SubSeq(s, Len(s) - Len(p) + 1, Len(s)) = p

\* str::contains for a character
contains(s, c) == \E i \in 1..Len(s) : s[i] = c

\* str::split(c).collect(): the pieces between the occurrences of c
RECURSIVE split(_, _)
split(s, c) ==
  IF ~contains(s, c) THEN <<s>>
  ELSE LET i == CHOOSE j \in 1..Len(s) : s[j] = c /\ \A h \in 1..(j - 1) : s[h] # c
       IN <<SubSeq(s, 1, i - 1)>> \o split(SubSeq(s, i + 1, Len(s)), c)

\* chars().take_while(p) and chars().skip_while(p), p given as a set of chars
RECURSIVE take_while(_, _)
take_while(s, P) ==
  IF s = << >> \/ s[1] \notin P THEN << >>
  ELSE <<s[1]>> \o take_while(Tail(s), P)

RECURSIVE skip_while(_, _)
skip_while(s, P) ==
  IF s = << >> \/ s[1] \notin P THEN s
  ELSE skip_while(Tail(s), P)

\* Ord for String: lexicographic on the characters
RECURSIVE str_lt(_, _)
str_lt(a, b) ==
  IF b = << >> THEN FALSE
  ELSE IF a = << >> THEN TRUE
  ELSE IF a[1] # b[1] THEN Code(a[1]) < Code(b[1])
  ELSE str_lt(Tail(a), Tail(b))

\* the keys of a BTreeMap in iteration order
RECURSIVE sorted_keys(_)
sorted_keys(S) ==
  IF S = {} THEN << >>
  ELSE LET m == CHOOSE x \in S : \A y \in S \ {x} : str_lt(x, y)
       IN <<m>> \o sorted_keys(S \ {m})

\* format!("{}/{}/{}", a, b, c)
join3(a, b, c) == a \o <<"/">> \o b \o <<"/">> \o c

(***************************************************************************)
(* Quantities.  The code computes in f64; the model computes the same      *)
(* values exactly, as num / 10^exp with num an unbounded natural held as   *)
(* little-endian limbs of four decimal digits (TLC's integers are 32 bits  *)
(* and 10 GiB is not).  f64 rounding is monotone and the quantities of the *)
(* model have few digits, so every comparison has the outcome the code's   *)
(* has.                                                                    *)
(***************************************************************************)
RECURSIVE big_scale(_, _, _)
big_scale(b, s, carry) ==
  IF b = << >> THEN (IF carry = 0 THEN << >> ELSE <<carry>>)
  ELSE LET t == b[1] * s + carry
       IN <<t % 10000>> \o big_scale(Tail(b), s, t \div 10000)

\* b * s for 0 <= s < 10000
big_mul_small(b, s) == IF s = 0 THEN << >> ELSE big_scale(b, s, 0)

RECURSIVE big_add_small(_, _)
big_add_small(b, a) ==
  IF a = 0 THEN b
  ELSE IF b = << >> THEN <<a>>
  ELSE LET t == b[1] + a
       IN <<t % 10000>> \o big_add_small(Tail(b), t \div 10000)

\* b * s^n
RECURSIVE big_mul_pow(_, _, _)
big_mul_pow(b, s, n) ==
  IF n = 0 THEN b ELSE big_mul_pow(big_mul_small(b, s), s, n - 1)

RECURSIVE big_of_digits(_)
big_of_digits(ds) ==
  IF ds = << >> THEN << >>
  ELSE big_add_small(big_mul_small(big_of_digits(SubSeq(ds, 1, Len(ds) - 1)), 10),
                     digit_value(ds[Len(ds)]))

RECURSIVE big_lt(_, _)
big_lt(a, b) ==
  IF Len(a) # Len(b) THEN Len(a) < Len(b)
  ELSE IF a = << >> THEN FALSE
  ELSE IF a[Len(a)] # b[Len(b)] THEN a[Len(a)] < b[Len(b)]
  ELSE big_lt(SubSeq(a, 1, Len(a) - 1), SubSeq(b, 1, Len(b) - 1))

\* x > y on quantities num / 10^exp
f64_gt(x, y) == big_lt(big_mul_pow(y.num, 10, x.exp), big_mul_pow(x.num, 10, y.exp))

\* a float literal with an integral value
f64_of(n) == [num |-> big_add_small(<< >>, n), exp |-> 0]

\* x * s^n
f64_mul(x, s, n) == [num |-> big_mul_pow(x.num, s, n), exp |-> x.exp]

\* x / 1000.0
f64_div_1000(x) == [num |-> x.num, exp |-> x.exp + 3]

NumChars == {"0", "1", "2", "3", "4", "5", "6", "7", "8", "9", "."}

\* <f64 as FromStr>::from_str on a run of digits and points: at least one
\* digit and at most one point
parse_f64(digits) ==
  LET points == {i \in 1..Len(digits) : digits[i] = "."}
      ds == SelectSeq(digits, is_digit)
  IN IF ds = << >> \/ Cardinality(points) > 1 \/ Len(ds) + Cardinality(points) # Len(digits)
     THEN Err("InvalidNumber")
     ELSE Ok([num |-> big_of_digits(ds),
              exp |-> IF points = {} THEN 0
                      ELSE Len(digits) - (CHOOSE i \in points : TRUE)])

\* Parse normal k8s memory resource value into floats
parse_memory(s) ==
  LET digits == take_while(s, NumChars)
      unit == skip_while(s, NumChars)
      res == parse_f64(digits)
  IN IF res.tag # "Ok" THEN res
     ELSE IF unit = <<"K", "i">> THEN Ok(f64_mul(res.val, 1024, 1))
     ELSE IF unit = <<"M", "i">> THEN Ok(f64_mul(res.val, 1024, 2))
     ELSE IF unit = <<"G", "i">> THEN Ok(f64_mul(res.val, 1024, 3))
     ELSE IF unit = <<"k">> THEN Ok(f64_mul(res.val, 1000, 1))
     ELSE IF unit = <<"M">> THEN Ok(f64_mul(res.val, 1000, 2))
     ELSE IF unit = <<"G">> THEN Ok(f64_mul(res.val, 1000, 3))
     ELSE IF unit # << >> THEN Err("UnknownUnit")
     ELSE Ok(res.val)

\* Parse normal k8s cpu resource values into floats
parse_cpu(s) ==
  LET digits == take_while(s, NumChars)
      unit == skip_while(s, NumChars)
      res == parse_f64(digits)
  IN IF res.tag # "Ok" THEN res
     ELSE IF unit = <<"m">> THEN Ok(f64_div_1000(res.val))
     ELSE IF unit = <<"k">> THEN Ok(f64_mul(res.val, 1000, 1))
     ELSE IF unit # << >> THEN Err("UnknownUnit")
     ELSE Ok(res.val)

(***************************************************************************)
(* The Manifest struct and what serde gives a field the document omits     *)
(***************************************************************************)
EmptyMap == << >>

ManifestDefault ==
  [name |-> None, image |-> None, resources |-> None, replicas |-> None,
   env |-> EmptyMap, configs |-> None, volume_mounts |-> << >>,
   init_containers |-> << >>, ports |-> << >>, vault |-> None, health |-> None,
   dependencies |-> << >>, regions |-> << >>, volumes |-> << >>,
   _namespace |-> << >>, _location |-> << >>]

HealthCheckDefault == [uri |-> None, wait |-> None, port |-> None]

(***************************************************************************)
(* Manifest::implicits                                                     *)
(***************************************************************************)
\* a mutant of implicit_health: an explicit health port is overwritten too
implicit_health_overwrite(ports, health) ==
  IF ports # << >>
  THEN IF is_some(health)
       THEN Some([unwrap(health) EXCEPT !.port = Some(ports[1])])
       ELSE Some([HealthCheckDefault EXCEPT !.port = Some(ports[1])])
  ELSE health

\* image name defaults to the service name
implicit_image(image, name) ==
  IF is_none(image)
  THEN Some([name |-> Some(name), repository |-> None, tag |-> None])
  ELSE image

\* config map implicit name
implicit_configs(configs, name) ==
  IF is_some(configs) /\ is_none(unwrap(configs).name)
  THEN Some([unwrap(configs) EXCEPT !.name = Some(name \o <<"-", "c", "o", "n", "f", "i", "g">>)])
  ELSE configs

\* health check port set if we expose ports
implicit_health(ports, health) ==
  IF ports # << >>
  THEN IF is_some(health)
       THEN IF is_none(unwrap(health).port)
            THEN Some([unwrap(health) EXCEPT !.port = Some(ports[1])])
            ELSE health
       ELSE Some([HealthCheckDefault EXCEPT !.port = Some(ports[1])])
  ELSE health

implicit_dependencies(deps) ==
  [i \in 1..Len(deps) |->
     IF is_none(deps[i].api) THEN [deps[i] EXCEPT !.api = Some(<<"v", "1">>)] ELSE deps[i]]

\* Add implicit defaults to self
implicits(self) ==
  IF is_none(self.name) THEN Panic("implicits: self.name.unwrap() on None")
  ELSE LET name == unwrap(self.name)
       IN Ok([self EXCEPT !.image = implicit_image(self.image, name),
                          !.configs = implicit_configs(self.configs, name),
                          !.health = implicit_health(self.ports, self.health),
                          !.dependencies = implicit_dependencies(self.dependencies)])

(***************************************************************************)
(* Manifest::merge                                                         *)
(***************************************************************************)
\* a mutant of merge_env: the override's value replaces the accumulated one
merge_env_overwrite(self_env, mf_env) ==
  [k \in DOMAIN self_env \cup DOMAIN mf_env |->
     IF k \in DOMAIN mf_env THEN mf_env[k] ELSE self_env[k]]

\* a mutant of merge_env: a kube placeholder of the override is substituted
merge_env_substituting(self_env, mf_env) ==
  [k \in DOMAIN self_env \cup DOMAIN mf_env |->
     IF k \in DOMAIN self_env THEN self_env[k]
     ELSE IF mf_env[k] = <<"I", "N", "_", "K", "U", "B", "E", "_", "S", "E", "C", "R", "E", "T", "S">>
     THEN <<"k", "u", "b", "e", "-", "s", "e", "c", "r", "e", "t", "-">> \o to_lowercase(k)
     ELSE mf_env[k]]

\* for (k,v) in mf.env { self.env.entry(k).or_insert(v); }
merge_env(self_env, mf_env) ==
  [k \in DOMAIN self_env \cup DOMAIN mf_env |->
     IF k \in DOMAIN self_env THEN self_env[k] ELSE mf_env[k]]

\* allow overriding default repository and tags; self_image is Some here
merge_image(self_image, img) ==
  LET curr == unwrap(self_image)
  IN Some([curr EXCEPT
             !.repository = IF is_none(curr.repository) THEN img.repository ELSE @,
             !.tag = IF is_none(curr.tag) THEN img.tag ELSE @])

\* self.resources after line 410
merge_resources_adopt(self_res, mf_res) ==
  IF is_none(self_res) /\ is_some(mf_res) THEN mf_res ELSE self_res

merge_health(self_health, mf_health) ==
  IF is_some(mf_health) /\ is_some(self_health)
  THEN LET lhs == unwrap(self_health)
           rhs == unwrap(mf_health)
       IN Some([lhs EXCEPT !.uri = IF is_none(lhs.uri) THEN rhs.uri ELSE @,
                           !.wait = IF is_none(lhs.wait) THEN rhs.wait ELSE @])
  ELSE self_health

\* Merge defaults from partial override file; file is the parsed document,
\* None when the path does not exist
merge(self, file) ==
  IF is_none(file) THEN Err("DefaultsFileMissing")
  ELSE IF is_none(self.name) THEN Panic("merge: self.name.unwrap() on None")
  ELSE LET mf_ == unwrap(file)
           res1 == merge_resources_adopt(self.resources, mf_.resources)
       IN IF is_some(mf_.image) /\ is_none(self.image)
          THEN Panic("merge: self.image.unwrap() on None")
          ELSE IF is_some(res1) /\ is_none(unwrap(res1).limits) /\ is_none(mf_.resources)
          THEN Panic("merge: mf.resources.unwrap() on None (limits)")
          ELSE IF is_some(res1) /\ is_none(unwrap(res1).requests) /\ is_none(mf_.resources)
          THEN Panic("merge: mf.resources.unwrap() on None (requests)")
          ELSE Ok([self EXCEPT
                 !.env = merge_env(self.env, mf_.env),
                 !.image = IF is_some(mf_.image) THEN merge_image(self.image, unwrap(mf_.image)) ELSE @,
                 !.resources =
                    IF is_some(res1)
                    THEN LET res == unwrap(res1)
                         IN Some([requests |-> IF is_none(res.requests)
                                               THEN unwrap(mf_.resources).requests
                                               ELSE res.requests,
                                  limits |-> IF is_none(res.limits)
                                             THEN unwrap(mf_.resources).limits
                                             ELSE res.limits])
                    ELSE res1,
                 !.volume_mounts = IF self.volume_mounts = << >> /\ mf_.volume_mounts # << >>
                                   THEN mf_.volume_mounts ELSE @,
                 !.init_containers = IF self.init_containers = << >> /\ mf_.init_containers # << >>
                                     THEN mf_.init_containers ELSE @,
                 !.replicas = IF is_none(self.replicas) /\ is_some(mf_.replicas)
                              THEN mf_.replicas ELSE @,
                 !.health = merge_health(self.health, mf_.health),
                 !.volumes = IF self.volumes = << >> /\ mf_.volumes # << >>
                             THEN mf_.volumes ELSE @])

(***************************************************************************)
(* Manifest::secrets                                                       *)
(***************************************************************************)
IN_VAULT == <<"I", "N", "_", "V", "A", "U", "L", "T">>
kube_prefix == <<"I", "N", "_", "K", "U", "B", "E", "_", "S", "E", "C", "R", "E", "T", "S">>
kube_secret_ == <<"k", "u", "b", "e", "-", "s", "e", "c", "r", "e", "t", "-">>

\* some services use keys from other services
secrets_svc(self) ==
  IF is_some(self.vault) THEN unwrap(self.vault).name ELSE unwrap(self.name)

\* format!("{}/{}/{}", region, svc, k)
vault_key(region, svc, k) == join3(region, svc, k)

\* a mutant of kube_secret_name: underscores are kept
kube_secret_name_keep_underscores(res) == kube_secret_ \o to_lowercase(res)

\* format!("kube-secret-{}", res.to_lowercase().replace("_", "-"))
kube_secret_name(res) == kube_secret_ \o replace(to_lowercase(res), "_", "-")

\* a mutant of secrets_entry: a failed read leaves the placeholder in place
secrets_entry_swallow(store, region, svc, k, v) ==
  IF v = IN_VAULT
  THEN LET vkey == vault_key(region, svc, k)
       IN [read |-> Some(vkey),
           res |-> IF vkey \in DOMAIN store THEN Ok(store[vkey]) ELSE Ok(v)]
  ELSE [read |-> None, res |-> Ok(v)]

\* One iteration of the loop over self.env: the new value of entry (k, v), and
\* the path read from the client, if any.  store is what the client can read.
secrets_entry(store, region, svc, k, v) ==
  IF v = IN_VAULT
  THEN LET vkey == vault_key(region, svc, k)
       IN [read |-> Some(vkey),
           res |-> IF vkey \in DOMAIN store THEN Ok(store[vkey])
                   ELSE Err("SecretReadFailure")]
  ELSE IF starts_with(v, kube_prefix)
  THEN [read |-> None,
        res |-> IF v = kube_prefix
                THEN Ok(kube_secret_name(k))
                ELSE IF ~contains(v, ":")
                THEN Panic("secrets: assert!(v.contains(':'))")
                ELSE LET parts == split(v, ":")
                     IN IF parts[2] = << >>
                        THEN Err("InvalidSecretPath")
                        ELSE Ok(kube_secret_name(parts[2]))]
  ELSE [read |-> None, res |-> Ok(v)]

(***************************************************************************)
(* Manifest::fill, the stamp                                               *)
(***************************************************************************)
\* a mutant of stamp: more than two segments are accepted
stamp_two_or_more(self, region) ==
  LET region_parts == split(region, "-")
  IN IF Len(region_parts) < 2 THEN Err("InvalidRegion")
     ELSE Ok([self EXCEPT !._namespace = region_parts[1],
                          !._location = region_parts[2]])

\* set namespace property
stamp(self, region) ==
  LET region_parts == split(region, "-")
  IN IF Len(region_parts) # 2 THEN Err("InvalidRegion")
     ELSE Ok([self EXCEPT !._namespace = region_parts[1],
                          !._location = region_parts[2]])

(***************************************************************************)
(* Manifest::verify                                                        *)
(***************************************************************************)
\* <usize as FromStr>::from_str: an optional plus sign, then digits
parse_usize_ok(s) ==
  LET ds == IF s # << >> /\ s[1] = "+" THEN Tail(s) ELSE s
  IN ds # << >> /\ \A i \in 1..Len(ds) : is_digit(ds[i])

\* a mutant of verify_resources: the request ceiling on cpu is not checked
verify_resources_no_req_cpu_cap(req_cpu, lim_cpu, req_memory, lim_memory) ==
  IF f64_gt(req_cpu, lim_cpu) THEN Err("ResourceBoundViolation: cpu request > limit")
  ELSE IF f64_gt(req_memory, lim_memory) THEN Err("ResourceBoundViolation: memory request > limit")
  ELSE IF f64_gt(req_memory, f64_mul(f64_of(10), 1024, 3))
  THEN Err("ResourceBoundViolation: memory request > 10 GB")
  ELSE IF f64_gt(lim_cpu, f64_of(20)) THEN Err("ResourceBoundViolation: cpu limit > 20")
  ELSE IF f64_gt(lim_memory, f64_mul(f64_of(20), 1024, 3))
  THEN Err("ResourceBoundViolation: memory limit > 20 GB")
  ELSE Ok(<< >>)

\* 1.1 limits >= requests, 1.2 sanity numbers
verify_resources(req_cpu, lim_cpu, req_memory, lim_memory) ==
  IF f64_gt(req_cpu, lim_cpu) THEN Err("ResourceBoundViolation: cpu request > limit")
  ELSE IF f64_gt(req_memory, lim_memory) THEN Err("ResourceBoundViolation: memory request > limit")
  ELSE IF f64_gt(req_cpu, f64_of(10)) THEN Err("ResourceBoundViolation: cpu request > 10")
  ELSE IF f64_gt(req_memory, f64_mul(f64_of(10), 1024, 3))
  THEN Err("ResourceBoundViolation: memory request > 10 GB")
  ELSE IF f64_gt(lim_cpu, f64_of(20)) THEN Err("ResourceBoundViolation: cpu limit > 20")
  ELSE IF f64_gt(lim_memory, f64_mul(f64_of(20), 1024, 3))
  THEN Err("ResourceBoundViolation: memory limit > 20 GB")
  ELSE Ok(<< >>)

\* 3. configs
verify_configs(configs) ==
  IF is_none(configs) THEN Ok(<< >>)
  ELSE LET cfgmap == unwrap(configs)
       IN IF cfgmap.mount = << >> \/ cfgmap.mount = <<"~">>
          THEN IF is_none(cfgmap.name) THEN Panic("verify: cfgmap.name.unwrap() on None")
               ELSE Err("ConfigShapeError: empty mount path")
          ELSE IF ~ends_with(cfgmap.mount, <<"/">>)
          THEN IF is_none(cfgmap.name) THEN Panic("verify: cfgmap.name.unwrap() on None")
               ELSE Err("ConfigShapeError: mount path without slash")
          ELSE IF \E i \in 1..Len(cfgmap.files) :
                     ~ends_with(cfgmap.files[i].name, <<".", "j", "2">>)
          THEN Err("ConfigShapeError: not a template")
          ELSE Ok(<< >>)

\* 5. dependencies, in order
RECURSIVE verify_dependencies(_, _)
verify_dependencies(deps, dirs) ==
  IF deps = << >> THEN Ok(<< >>)
  ELSE LET d == deps[1]
       IN IF d.name \notin dirs THEN Err("DependencyNotFound")
          ELSE IF is_none(d.api) THEN Panic("verify: assert!(d.api.is_some())")
          ELSE IF ~parse_usize_ok(skip_while(unwrap(d.api), {"v"}))
          THEN Err("InvalidApiVersion")
          ELSE verify_dependencies(Tail(deps), dirs)

\* a mutant of verify_regions: only the first declared region is looked up
verify_regions_first_only(regions, globals) ==
  IF regions # << >> /\ regions[1] \notin DOMAIN globals
  THEN Err("RegionFileMissing")
  ELSE IF regions = << >> THEN Err("EmptyRegionSet")
  ELSE Ok(<< >>)

\* 6. regions must have a defaults file in ./environments
verify_regions(regions, globals) ==
  IF \E i \in 1..Len(regions) : regions[i] \notin DOMAIN globals
  THEN Err("RegionFileMissing")
  ELSE IF regions = << >> THEN Err("EmptyRegionSet")
  ELSE Ok(<< >>)

\* Regex (?:[a-z]+/)?([a-z]+)(?::[0-9]+)? searched anywhere in the image:
\* the optional groups may match nothing, so one letter of a-z is a match
image_re_is_match(image) == \E i \in 1..Len(image) : is_lower(image[i])

\* 7. init containers - only verify syntax
RECURSIVE verify_init_containers(_)
verify_init_containers(ics) ==
  IF ics = << >> THEN Ok(<< >>)
  ELSE IF ~image_re_is_match(ics[1].image) THEN Err("InitContainerInvalid: image")
  ELSE IF ics[1].command = << >> THEN Err("InitContainerInvalid: no command")
  ELSE verify_init_containers(Tail(ics))

\* 8. health check
verify_health(health) ==
  IF is_none(health) THEN Ok(<< >>)
  ELSE IF is_none(unwrap(health).port) THEN Panic("verify: assert!(health.port.is_some())")
  ELSE IF is_none(unwrap(health).uri) THEN Err("HealthCheckIncomplete: uri")
  ELSE IF is_none(unwrap(health).wait) THEN Err("HealthCheckIncomplete: wait")
  ELSE Ok(<< >>)

\* the first of the results that is not Ok, else Ok
RECURSIVE first_failure(_)
first_failure(rs) ==
  IF rs = << >> THEN Ok(<< >>)
  ELSE IF rs[1].tag # "Ok" THEN rs[1]
  ELSE first_failure(Tail(rs))

\* lines 563-589: unwrap and parse the quantities, then compare them
verify_resources_block(resources) ==
  IF is_none(resources) THEN Panic("verify: self.resources.unwrap() on None")
  ELSE IF is_none(unwrap(resources).requests) THEN Panic("verify: requests.unwrap() on None")
  ELSE IF is_none(unwrap(resources).limits) THEN Panic("verify: limits.unwrap() on None")
  ELSE LET req == unwrap(unwrap(resources).requests)
           lim == unwrap(unwrap(resources).limits)
           req_memory == parse_memory(req.memory)
           lim_memory == parse_memory(lim.memory)
           req_cpu == parse_cpu(req.cpu)
           lim_cpu == parse_cpu(lim.cpu)
           parsed == first_failure(<<req_memory, lim_memory, req_cpu, lim_cpu>>)
       IN IF parsed.tag # "Ok" THEN parsed
          ELSE verify_resources(req_cpu.val, lim_cpu.val, req_memory.val, lim_memory.val)

\* a mutant of verify: the regions are checked before the dependencies
verify_regions_before_dependencies(self, disk) ==
  IF is_none(self.name) \/ unwrap(self.name) = << >> THEN Err("NameEmpty")
  ELSE first_failure(<<verify_resources_block(self.resources),
                       verify_configs(self.configs),
                       verify_regions(self.regions, disk.globals),
                       verify_dependencies(self.dependencies, disk.dirs),
                       verify_init_containers(self.init_containers),
                       verify_health(self.health)>>)

\* Verify assumptions about manifest; disk is the file system it consults
verify(self, disk) ==
  IF is_none(self.name) \/ unwrap(self.name) = << >> THEN Err("NameEmpty")
  ELSE LET r1 == verify_resources_block(self.resources)
       IN IF r1.tag # "Ok" THEN r1
          ELSE LET r3 == verify_configs(self.configs)
               IN IF r3.tag # "Ok" THEN r3
          ELSE LET r5 == verify_dependencies(self.dependencies, disk.dirs)
               IN IF r5.tag # "Ok" THEN r5
          ELSE LET r6 == verify_regions(self.regions, disk.globals)
               IN IF r6.tag # "Ok" THEN r6
          ELSE LET r7 == verify_init_containers(self.init_containers)
               IN IF r7.tag # "Ok" THEN r7
          ELSE verify_health(self.health)

(***************************************************************************)
(* The descriptor sets the runs start from.                                *)
(*   fs.dirs     the directories under services/                           *)
(*   fs.base     services/<dir>/shipcat.yml, parsed, where it exists       *)
(*   fs.locals   services/<name>/<region>.yml, parsed, where it exists     *)
(*   fs.globals  environments/<region>.yml, parsed, where it exists        *)
(*   args        the arguments of Manifest::completed; args.vault is the   *)
(*               client, given as the secrets it can read                  *)
(* Files are held as serde_yaml parsed them; a malformed document is not   *)
(* among the inputs.                                                       *)
(***************************************************************************)
svc == <<"s", "v", "c">>
dep == <<"d", "b">>
vn == <<"v", "n">>
R1 == <<"p", "-", "u">>

KeyPool == << <<"A", "_", "K">>, <<"b">>, <<"C", "d">> >>
Keys == {KeyPool[i] : i \in 1..NumKeys}

PortPool == <<80, 81, 82>>
PortLists == {[i \in 1..n |-> PortPool[i]] : n \in 0..NumPorts}

RegionPool ==
  { R1, <<"p", "u">>, <<"p", "-", "u", "-", "x">>, <<"-", "u">>, <<"p", "-">>,
    <<"-">>, << >>, <<"-", "-">> }

V1 == <<"1">>
V2 == <<"2">>
V3 == <<"3">>
KUBE_SUB == kube_prefix \o <<":", "S", "_", "k">>
KUBE_EMPTY == kube_prefix \o <<":">>
KUBE_NOCOLON == kube_prefix \o <<"F", "O", "O">>
KUBE_TWO == kube_prefix \o <<":", "a", ":", "b">>
KUBE_LATE == kube_prefix \o <<"X", ":", "y">>
VAULT_LIKE == IN_VAULT \o <<"X">>

EnvMaps(K, V) == UNION {[S -> V] : S \in SUBSET K}

\* what a client that can read the secrets of the keys in U holds
SecretAt(path) == <<"s", "3", "c", "@">> \o path
Store(U) ==
  [path \in {vault_key(r, n, k) : r \in RegionPool, n \in {svc, vn}, k \in U} |->
     SecretAt(path)]

GoodResources ==
  Some([requests |-> Some([cpu |-> <<"1", "0", "0", "m">>, memory |-> <<"1", "G", "i">>]),
        limits |-> Some([cpu |-> <<"2">>, memory |-> <<"2", "G", "i">>])])

GoodHealth == Some([uri |-> Some("/health"), wait |-> Some(30), port |-> None])

GoodBase ==
  [ManifestDefault EXCEPT !.name = Some(svc), !.resources = GoodResources,
                          !.ports = <<PortPool[1]>>, !.health = GoodHealth,
                          !.regions = <<R1>>]

NoFiles == << >>

GoodFs ==
  [dirs |-> {svc, dep},
   base |-> [d \in {svc} |-> GoodBase],
   locals |-> NoFiles,
   globals |-> [r \in {R1} |-> ManifestDefault]]

GoodArgs == [region |-> R1, service |-> svc, vault |-> None]

WithBase(disk, m) == [disk EXCEPT !.base = [d \in {svc} |-> m]]
WithLocal(disk, name, region, file) ==
  [disk EXCEPT !.locals = IF is_some(file)
                          THEN [q \in {<<name, region>>} |-> unwrap(file)]
                          ELSE NoFiles]
WithGlobal(disk, region, file) ==
  [disk EXCEPT !.globals = IF is_some(file)
                           THEN [r \in {region} |-> unwrap(file)]
                           ELSE NoFiles]
EnvFile(env) == Some([ManifestDefault EXCEPT !.env = env])

\* layered env maps of literals, resolved offline
EnvScenarios ==
  { [fs |-> WithGlobal(WithLocal(WithBase(GoodFs, [GoodBase EXCEPT !.env = b]),
                                 svc, R1, l), R1, g),
     args |-> GoodArgs] :
      b \in EnvMaps(Keys, {V1}),
      l \in {None} \cup {EnvFile(e) : e \in EnvMaps(Keys, {V2})},
      g \in {None} \cup {EnvFile(e) : e \in EnvMaps(Keys, {V3})} }

\* override layers that carry placeholders, offline and with a client
LayeredPlaceholderScenarios ==
  { [fs |-> WithGlobal(WithLocal(WithBase(GoodFs, [GoodBase EXCEPT !.env = b]),
                                 svc, R1, l), R1, g),
     args |-> [GoodArgs EXCEPT !.vault = c]] :
      b \in EnvMaps(Keys, {IN_VAULT}),
      l \in {None, EnvFile([k \in Keys |-> kube_prefix])},
      g \in {None, EnvFile([k \in Keys |-> IN_VAULT])},
      c \in {None, Some(Store(Keys))} }

\* vault placeholders against clients that can read some of the keys
VaultScenarios ==
  { [fs |-> WithBase(GoodFs, [GoodBase EXCEPT !.env = b, !.vault = v]),
     args |-> [GoodArgs EXCEPT !.vault = c]] :
      b \in EnvMaps(Keys, {V1, IN_VAULT, kube_prefix}),
      v \in {None, Some([name |-> vn])},
      c \in {None} \cup {Some(Store(U)) : U \in SUBSET Keys} }

\* every shape of kube placeholder
KubeScenarios ==
  { [fs |-> WithBase(GoodFs, [GoodBase EXCEPT !.env = b]),
     args |-> [GoodArgs EXCEPT !.vault = c]] :
      b \in EnvMaps(Keys, {kube_prefix, KUBE_SUB, KUBE_EMPTY, KUBE_NOCOLON, KUBE_TWO,
                           KUBE_LATE, VAULT_LIKE}),
      c \in {None, Some(Store(Keys))} }

\* every shape of region
RegionScenarios ==
  { [fs |-> [WithGlobal(GoodFs, r, g) EXCEPT !.dirs = d],
     args |-> [GoodArgs EXCEPT !.region = r, !.service = s]] :
      r \in RegionPool, g \in {None, Some(ManifestDefault)},
      d \in {{svc, dep}, {dep}}, s \in {svc, dep} }

ImagePool ==
  { None,
    Some([name |-> None, repository |-> Some("quay.io/babylon"), tag |-> None]),
    Some([name |-> None, repository |-> None, tag |-> Some("1.0")]),
    Some([name |-> Some(<<"i", "m", "g">>), repository |-> None, tag |-> None]),
    Some([name |-> Some(<<"i", "m", "g">>), repository |-> Some(""), tag |-> Some("2.0")]) }

HealthPool ==
  { None,
    Some(HealthCheckDefault),
    Some([uri |-> None, wait |-> None, port |-> Some(9000)]),
    Some([uri |-> Some("/health"), wait |-> Some(30), port |-> None]),
    Some([uri |-> Some("/status"), wait |-> None, port |-> Some(9000)]) }

OverridePool ==
  { None,
    Some(ManifestDefault),
    Some([ManifestDefault EXCEPT
            !.image = Some([name |-> None, repository |-> Some("docker.io"),
                            tag |-> Some("3.0")]),
            !.health = Some([uri |-> Some("/ping"), wait |-> Some(10),
                             port |-> Some(7000)])]) }

\* descriptors with and without a name and an image block
ImageScenarios ==
  { [fs |-> WithGlobal(WithBase(GoodFs, [GoodBase EXCEPT !.name = n, !.image = i]), R1, g),
     args |-> GoodArgs] :
      n \in {None, Some(svc), Some(<< >>)}, i \in ImagePool, g \in OverridePool }

\* descriptors with and without ports and a health block
HealthScenarios ==
  { [fs |-> WithGlobal(WithBase(GoodFs, [GoodBase EXCEPT !.ports = p, !.health = h]), R1, g),
     args |-> GoodArgs] :
      p \in PortLists, h \in HealthPool, g \in OverridePool }

CpuPool ==
  { <<"1", "2">>, <<"1", "0">>, <<"1", "0", ".", "5">>, <<"2", "0">>, <<"2", "1">>,
    <<"1", "0", "0", "m">>, <<"1", "0", "0", "0", "1", "m">>, <<".", "5">>, <<"2", ".">>,
    <<".">>, <<"1", "x">>, <<"1", "k">>, << >> }

MemoryPool ==
  { <<"5", "1", "2", "M", "i">>, <<"1", "G", "i">>, <<"1", "0", "G", "i">>,
    <<"1", "1", "G", "i">>, <<"2", "0", "G", "i">>, <<"2", "1", "G", "i">>,
    <<"1", "0", "G">>, <<"1", "1", "G">>, <<"5", "1", "2", "X", "i">>,
    <<"1", "0", "4", "8", "5", "7", "6", "0", "K", "i">>,
    <<"1", "0", "7", "3", "7", "4", "1", "8", "2", "4", "1">>,
    <<"1", ".", "5", "k">>, <<"2", "M">>, <<"1", ".", "2", ".", "3">> }

\* resource blocks over the quantity pools
CpuScenarios ==
  { [fs |-> WithBase(GoodFs, [GoodBase EXCEPT !.resources =
               Some([requests |-> Some([cpu |-> rc, memory |-> <<"1", "G", "i">>]),
                     limits |-> Some([cpu |-> lc, memory |-> <<"2", "G", "i">>])])]),
     args |-> GoodArgs] :
      rc \in CpuPool, lc \in CpuPool }

MemoryScenarios ==
  { [fs |-> WithBase(GoodFs, [GoodBase EXCEPT !.resources =
               Some([requests |-> Some([cpu |-> rc, memory |-> rm]),
                     limits |-> Some([cpu |-> <<"2", "0">>, memory |-> lm])])]),
     args |-> GoodArgs] :
      rc \in {<<"1", "2">>, <<"1", "0", "0", "m">>}, rm \in MemoryPool, lm \in MemoryPool }

R2 == <<"d", "-", "e">>

\* the region lists a descriptor declares
RegionLists ==
  { << >>, <<R1>>, <<R2>>, <<R1, R2>>, <<R2, R1>>, <<R1, <<"p", "u">> >> }

\* override files that differ from region to region, in env and beyond
RegionNo(r) == IF r = R1 THEN 1 ELSE 2
LocalOf(r) ==
  [ManifestDefault EXCEPT !.env = [k \in {KeyPool[1]} |-> r],
                          !.replicas = Some([min |-> RegionNo(r), max |-> 9])]
GlobalOf(r) ==
  [ManifestDefault EXCEPT !.env = [k \in {KeyPool[1], KeyPool[2]} |-> <<"g">> \o r],
                          !.volumes = <<r>>,
                          !.health = Some([uri |-> Some("/ping"), wait |-> Some(RegionNo(r)),
                                           port |-> None])]

\* a descriptor without env, replicas and volumes: the overrides give them
RegionsBase(rs) == [GoodBase EXCEPT !.regions = rs]

\* descriptors over the region lists, with override files for some regions
RegionsFs(rs, L, G) ==
  [dirs |-> {svc, dep},
   base |-> [d \in {svc} |-> RegionsBase(rs)],
   locals |-> [q \in {<<svc, r>> : r \in L} |-> LocalOf(q[2])],
   globals |-> [r \in G |-> GlobalOf(r)]]

\* validate(service) over the region lists
ValidateScenarios ==
  { [fs |-> [RegionsFs(rs, L, G) EXCEPT !.dirs = d],
     args |-> [region |-> << >>, service |-> s, vault |-> None]] :
      rs \in RegionLists, L \in SUBSET {R1, R2}, G \in SUBSET {R1, R2},
      d \in {{svc, dep}}, s \in {svc} }
    \cup
  { [fs |-> [GoodFs EXCEPT !.dirs = d],
     args |-> [region |-> << >>, service |-> s, vault |-> None]] :
      d \in {{svc, dep}, {dep}}, s \in {svc, dep} }

\* completed(region, service, None) on the same descriptor sets
RegionListScenarios ==
  { [fs |-> RegionsFs(rs, L, G), args |-> [GoodArgs EXCEPT !.region = r]] :
      rs \in RegionLists, L \in {{}, {R1, R2}}, G \in SUBSET {R1, R2}, r \in {R1, R2} }

\* resources blocks: absent, empty, requests only, limits only, complete
ResourcesPool ==
  { None,
    Some([requests |-> None, limits |-> None]),
    Some([requests |-> unwrap(GoodResources).requests, limits |-> None]),
    Some([requests |-> None, limits |-> unwrap(GoodResources).limits]),
    GoodResources }

AnInitContainer(n) == [name |-> n, image |-> <<"a", "l", "p">>, command |-> <<"sh">>]

\* an override file that carries every field merge adopts
OverrideFull(tag) ==
  [ManifestDefault EXCEPT
     !.resources = Some([requests |-> Some([cpu |-> <<"2", "0", "0", "m">>,
                                            memory |-> <<"5", "1", "2", "M", "i">>]),
                         limits |-> Some([cpu |-> <<"4">>, memory |-> <<"4", "G", "i">>])]),
     !.replicas = Some([min |-> 2, max |-> 4]),
     !.volume_mounts = <<[name |-> tag, mountPath |-> "/data"]>>,
     !.init_containers = <<AnInitContainer(tag)>>,
     !.volumes = <<[name |-> tag]>>]

\* an override file whose resources block has requests only
OverrideRequestsOnly ==
  [ManifestDefault EXCEPT
     !.resources = Some([requests |-> Some([cpu |-> <<"3", "0", "0", "m">>,
                                            memory |-> <<"1", "G", "i">>]),
                         limits |-> None])]

\* a descriptor that already has the fields merge adopts
WithOwnFields(m) ==
  [m EXCEPT !.replicas = Some([min |-> 1, max |-> 1]),
            !.volume_mounts = <<[name |-> "own", mountPath |-> "/own"]>>,
            !.init_containers = <<AnInitContainer("own")>>,
            !.volumes = <<[name |-> "own"]>>]

\* resources blocks of every shape under override layers of every shape
ResourcesScenarios ==
  { [fs |-> WithGlobal(WithLocal(WithBase(GoodFs, b), svc, R1, l), R1, g),
     args |-> GoodArgs] :
      b \in {[GoodBase EXCEPT !.resources = r] : r \in ResourcesPool}
             \cup {WithOwnFields([GoodBase EXCEPT !.resources = r]) : r \in ResourcesPool},
      l \in {None, Some(ManifestDefault), Some(OverrideFull("local")),
              Some(OverrideRequestsOnly)},
      g \in {None, Some(ManifestDefault), Some(OverrideFull("global")),
              Some(OverrideRequestsOnly)} }

\* config blocks: none, a mount path without its slash, a file that is no template
ConfigsPool ==
  { None,
    Some([name |-> None, mount |-> <<"/", "c">>,
          files |-> <<[name |-> <<"a", ".", "j", "2">>, dest |-> "a"]>>]),
    Some([name |-> None, mount |-> <<"/", "c", "/">>,
          files |-> <<[name |-> <<"a", ".", "j", "2">>, dest |-> "a"],
                      [name |-> <<"b", ".", "y", "m", "l">>, dest |-> "b"]>>]) }

\* dependencies: none, on a service that does not exist, with a bad api version
DependenciesPool ==
  { << >>,
    <<[name |-> dep, api |-> None], [name |-> <<"n", "o">>, api |-> None]>>,
    <<[name |-> dep, api |-> Some(<<"v", "v", "+", "2">>)],
      [name |-> dep, api |-> Some(<<"v", "x">>)]>> }

\* init containers: none, one without a command
InitContainersPool ==
  { << >>,
    <<AnInitContainer("ok"), [AnInitContainer("bad") EXCEPT !.command = << >>]>> }

\* descriptors that break any number of verify's rules at once
RuleBreakingScenarios ==
  { [fs |-> WithBase(GoodFs,
               [GoodBase EXCEPT !.name = n, !.resources = r, !.configs = c,
                                !.dependencies = d, !.regions = rs,
                                !.init_containers = ic, !.health = h]),
     args |-> GoodArgs] :
      n \in {Some(svc), Some(<< >>)},
      r \in {GoodResources,
              Some([requests |-> Some([cpu |-> <<"1", "2">>, memory |-> <<"1", "G", "i">>]),
                    limits |-> Some([cpu |-> <<"2", "0">>, memory |-> <<"2", "G", "i">>])])},
      c \in ConfigsPool, d \in DependenciesPool,
      rs \in {<<R1>>, <<R1, R2>>, << >>},
      ic \in InitContainersPool,
      h \in {GoodHealth, Some(HealthCheckDefault),
              Some([uri |-> Some("/health"), wait |-> None, port |-> None])} }

\* a client, a vault placeholder it can or cannot read, and a region that
\* may be malformed
SecretsOrderScenarios ==
  { [fs |-> WithGlobal(WithBase(GoodFs, [GoodBase EXCEPT !.env = b]), r, g),
     args |-> [GoodArgs EXCEPT !.region = r, !.vault = c]] :
      b \in {[k \in {KeyPool[1]} |-> IN_VAULT]},
      r \in {R1, <<"p", "u">>},
      g \in {None, EnvFile([k \in Keys |-> IN_VAULT])},
      c \in {Some(Store({})), Some(Store(Keys))} }

Scenarios ==
  SecretsOrderScenarios \cup RuleBreakingScenarios \cup ResourcesScenarios \cup RegionListScenarios \cup EnvScenarios \cup LayeredPlaceholderScenarios \cup VaultScenarios \cup KubeScenarios
    \cup RegionScenarios \cup ImageScenarios \cup HealthScenarios
    \cup CpuScenarios \cup MemoryScenarios

(***************************************************************************)
(* The state machine: one run of the program, step by step.  A run is      *)
(* either Manifest::completed followed by Manifest::verify on the manifest *)
(* it returned, or validate(service), which fills and verifies a clone of  *)
(* the descriptor for each of its regions.  Runs follow one another on the *)
(* same descriptor set; between two runs a missing environments file may   *)
(* be added.                                                               *)
(*   call     the entry point of the run                                   *)
(*   args     the arguments of completed; in validate, service is its      *)
(*            argument and region the loop's region (vault is None)        *)
(*   mf       the manifest being filled (mfr in validate)                  *)
(*   base     validate's mf, the descriptor as read, cloned per region     *)
(*   queue    the regions validate's loop still has to visit               *)
(*   log      the manifests validate has passed to verify, in order        *)
(*   vout     what validate returned                                       *)
(*   prev     what the earlier runs ended with                             *)
(***************************************************************************)
\* outcome, vres and vout: how the call ended (tag, kind) and in which step (at)
Running == [tag |-> "Running", kind |-> "", at |-> ""]
Outcome(r, at) == [tag |-> r.tag, kind |-> r.kind, at |-> at]

\* where a run starts
Entry(c) == IF c = "validate" THEN "validate" ELSE "completed"

Init ==
  /\ \/ \E sc \in Scenarios : fs = sc.fs /\ args = sc.args /\ call = "completed"
     \/ \E sc \in ValidateScenarios : fs = sc.fs /\ args = sc.args /\ call = "validate"
  /\ pc = Entry(call)
  /\ mf = ManifestDefault
  /\ todo = << >>
  /\ reads = << >>
  /\ steps = << >>
  /\ outcome = Running
  /\ ret = None
  /\ vres = Running
  /\ base = None
  /\ queue = << >>
  /\ log = << >>
  /\ vout = Running
  /\ prev = << >>

\* an Err or a panic ends the call: nothing is returned, and validate's ?
\* hands the failure of fill to its own caller
Abort(r) ==
  /\ pc' = "done"
  /\ outcome' = Outcome(r, pc)
  /\ ret' = None
  /\ vout' = IF call = "validate" THEN Outcome(r, pc) ELSE vout

\* Manifest::completed up to the call of fill (read_from included)
Completed ==
  /\ pc = "completed"
  /\ IF args.service \notin fs.dirs
     THEN Abort(Err("ServiceNotFound")) /\ UNCHANGED mf
     ELSE IF args.service \notin DOMAIN fs.base
     THEN Abort(Err("ManifestFileMissing")) /\ UNCHANGED mf
     ELSE /\ mf' = fs.base[args.service]
          /\ pc' = "implicits"
          /\ UNCHANGED <<outcome, ret, vout>>
  /\ UNCHANGED <<fs, args, todo, reads, steps, vres, call, base, queue, log, prev>>

\* validate up to its loop (read_from included)
Validate ==
  /\ pc = "validate"
  /\ IF args.service \notin fs.dirs
     THEN /\ vout' = Outcome(Err("ServiceNotFound"), pc)
          /\ pc' = "done"
          /\ UNCHANGED <<base, queue>>
     ELSE IF args.service \notin DOMAIN fs.base
     THEN /\ vout' = Outcome(Err("ManifestFileMissing"), pc)
          /\ pc' = "done"
          /\ UNCHANGED <<base, queue>>
     ELSE /\ base' = Some(fs.base[args.service])
          /\ queue' = fs.base[args.service].regions
          /\ pc' = "validate_loop"
          /\ UNCHANGED vout
  /\ UNCHANGED <<fs, args, mf, todo, reads, steps, outcome, ret, vres, call, log, prev>>

\* a mutant of ValidateLoop: the manifest of the region before is filled
\* again instead of a clone of the descriptor
ValidateLoop_no_clone ==
  /\ pc = "validate_loop"
  /\ IF queue = << >>
     THEN /\ vout' = Outcome(Ok(<< >>), pc)
          /\ pc' = "done"
          /\ UNCHANGED <<args, mf, queue, steps, outcome, ret, vres>>
     ELSE /\ args' = [args EXCEPT !.region = Head(queue)]
          /\ queue' = Tail(queue)
          /\ mf' = IF log = << >> THEN unwrap(base) ELSE mf
          /\ steps' = << >>
          /\ outcome' = Running
          /\ ret' = None
          /\ vres' = Running
          /\ pc' = "implicits"
          /\ UNCHANGED vout
  /\ UNCHANGED <<fs, todo, reads, call, base, log, prev>>

\* validate: for region in mf.regions.clone() { let mut mfr = mf.clone(); ... }
\* and, after the last region, Ok(())
ValidateLoop ==
  /\ pc = "validate_loop"
  /\ IF queue = << >>
     THEN /\ vout' = Outcome(Ok(<< >>), pc)
          /\ pc' = "done"
          /\ UNCHANGED <<args, mf, queue, steps, outcome, ret, vres>>
     ELSE /\ args' = [args EXCEPT !.region = Head(queue)]
          /\ queue' = Tail(queue)
          /\ mf' = unwrap(base)
          /\ steps' = << >>
          /\ outcome' = Running
          /\ ret' = None
          /\ vres' = Running
          /\ pc' = "implicits"
          /\ UNCHANGED vout
  /\ UNCHANGED <<fs, todo, reads, call, base, log, prev>>

\* fill: self.implicits()?
FillImplicits ==
  /\ pc = "implicits"
  /\ LET r == implicits(mf)
     IN IF r.tag # "Ok"
        THEN Abort(r) /\ UNCHANGED <<mf, todo, steps>>
        ELSE /\ mf' = r.val
             /\ steps' = Append(steps, "implicits")
             /\ IF is_some(args.vault)
                THEN pc' = "secrets" /\ todo' = sorted_keys(DOMAIN r.val.env)
                ELSE pc' = "merge_locals" /\ todo' = << >>
             /\ UNCHANGED <<outcome, ret, vout>>
  /\ UNCHANGED <<fs, args, reads, vres, call, base, queue, log, prev>>

\* fill: self.secrets(client, region)?, one iteration of its loop per step
FillSecrets ==
  /\ pc = "secrets"
  /\ IF todo = << >>
     THEN /\ pc' = "merge_locals"
          /\ steps' = Append(steps, "secrets")
          /\ UNCHANGED <<mf, todo, reads, outcome, ret, vout>>
     ELSE LET k == Head(todo)
              e == secrets_entry(unwrap(args.vault), args.region, secrets_svc(mf), k, mf.env[k])
          IN /\ reads' = reads \o e.read
             /\ IF e.res.tag = "Ok"
                THEN /\ mf' = [mf EXCEPT !.env[k] = e.res.val]
                     /\ todo' = Tail(todo)
                     /\ UNCHANGED <<pc, steps, outcome, ret, vout>>
                ELSE Abort(e.res) /\ UNCHANGED <<mf, todo, steps>>
  /\ UNCHANGED <<fs, args, vres, call, base, queue, log, prev>>

\* fill: merge service specific env overrides if they exists
FillMergeLocals ==
  /\ pc = "merge_locals"
  /\ LET envlocals == <<unwrap(mf.name), args.region>>
     IN IF envlocals \in DOMAIN fs.locals
        THEN LET r == merge(mf, Some(fs.locals[envlocals]))
             IN IF r.tag # "Ok"
                THEN Abort(r) /\ UNCHANGED <<mf, steps>>
                ELSE /\ mf' = r.val
                     /\ steps' = Append(steps, "merge_locals")
                     /\ pc' = "merge_globals"
                     /\ UNCHANGED <<outcome, ret, vout>>
        ELSE pc' = "merge_globals" /\ UNCHANGED <<mf, steps, outcome, ret, vout>>
  /\ UNCHANGED <<fs, args, todo, reads, vres, call, base, queue, log, prev>>

\* fill: merge global environment defaults if they exist
FillMergeGlobals ==
  /\ pc = "merge_globals"
  /\ LET envglobals == args.region
     IN IF envglobals \in DOMAIN fs.globals
        THEN LET r == merge(mf, Some(fs.globals[envglobals]))
             IN IF r.tag # "Ok"
                THEN Abort(r) /\ UNCHANGED <<mf, steps>>
                ELSE /\ mf' = r.val
                     /\ steps' = Append(steps, "merge_globals")
                     /\ pc' = "stamp"
                     /\ UNCHANGED <<outcome, ret, vout>>
        ELSE pc' = "stamp" /\ UNCHANGED <<mf, steps, outcome, ret, vout>>
  /\ UNCHANGED <<fs, args, todo, reads, vres, call, base, queue, log, prev>>

\* fill: set namespace property; completed returns Ok(mf)
FillStamp ==
  /\ pc = "stamp"
  /\ LET r == stamp(mf, args.region)
     IN IF r.tag # "Ok"
        THEN Abort(r) /\ UNCHANGED <<mf, steps>>
        ELSE /\ mf' = r.val
             /\ steps' = Append(steps, "stamp")
             /\ pc' = "verify"
             /\ outcome' = Outcome(r, pc)
             /\ ret' = Some(r.val)
             /\ UNCHANGED vout
  /\ UNCHANGED <<fs, args, todo, reads, vres, call, base, queue, log, prev>>

\* the caller verifies the manifest it was returned; in validate,
\* mfr.verify()? and the rest of the loop's body
Verify ==
  /\ pc = "verify"
  /\ LET r == verify(unwrap(ret), fs)
     IN /\ vres' = Outcome(r, pc)
        /\ IF call = "validate"
           THEN /\ log' = Append(log, [region |-> args.region, mf |-> unwrap(ret)])
                /\ IF r.tag = "Ok"
                   THEN pc' = "validate_loop" /\ UNCHANGED vout
                   ELSE pc' = "done" /\ vout' = Outcome(r, pc)
           ELSE pc' = "done" /\ UNCHANGED <<log, vout>>
  /\ UNCHANGED <<fs, args, mf, todo, reads, steps, outcome, ret, base, call, queue, prev>>

\* the run is over; the next run starts from nothing but the descriptor set
Exit ==
  /\ pc = "done"
  /\ Len(prev) < MaxRuns - 1
  /\ prev' = Append(prev, [fs |-> fs, region |-> args.region, ret |-> ret,
                           outcome |-> outcome, vres |-> vres, vout |-> vout,
                           log |-> log])
  /\ pc' = Entry(call)
  /\ args' = IF call = "validate" THEN [args EXCEPT !.region = << >>] ELSE args
  /\ mf' = ManifestDefault
  /\ todo' = << >>
  /\ reads' = << >>
  /\ steps' = << >>
  /\ outcome' = Running
  /\ ret' = None
  /\ vres' = Running
  /\ base' = None
  /\ queue' = << >>
  /\ log' = << >>
  /\ vout' = Running
  /\ UNCHANGED <<fs, call>>

\* between two runs, environments/{region}.yml is created, empty, for a
\* region the descriptor declares and that has no such file
AddRegionFile ==
  /\ pc = Entry(call)
  /\ prev # << >>
  /\ args.service \in DOMAIN fs.base
  /\ \E i \in 1..Len(fs.base[args.service].regions) :
       LET r == fs.base[args.service].regions[i]
       IN /\ r \notin DOMAIN fs.globals
          /\ fs' = [fs EXCEPT !.globals =
                      [x \in DOMAIN fs.globals \cup {r} |->
                         IF x = r THEN ManifestDefault ELSE fs.globals[x]]]
  /\ UNCHANGED <<args, pc, mf, todo, reads, steps, outcome, ret, vres,
                 call, base, queue, log, vout, prev>>

Next ==
  \/ Completed
  \/ Validate
  \/ ValidateLoop
  \/ FillImplicits
  \/ FillSecrets
  \/ FillMergeLocals
  \/ FillMergeGlobals
  \/ FillStamp
  \/ Verify
  \/ Exit
  \/ AddRegionFile

Spec == Init /\ [][Next]_vars

(***************************************************************************)
(* What the claims speak of                                                *)
(***************************************************************************)
\* the base descriptor of the service being resolved
Base == fs.base[args.service]
HasBase == args.service \in fs.dirs /\ args.service \in DOMAIN fs.base
\* the env of services/{name}/{region}.yml and of environments/{region}.yml,
\* empty when the file does not exist
LocalEnv ==
  IF <<unwrap(Base.name), args.region>> \in DOMAIN fs.locals
  THEN fs.locals[<<unwrap(Base.name), args.region>>].env ELSE EmptyMap
GlobalEnv ==
  IF args.region \in DOMAIN fs.globals THEN fs.globals[args.region].env ELSE EmptyMap
\* the name the secrets are scoped by
EffectiveName == IF is_some(Base.vault) THEN unwrap(Base.vault).name ELSE unwrap(Base.name)
\* the secrets step has run to its end
SecretsDone == Len(steps) >= 2 /\ steps[2] = "secrets"
\* the path of the secret of env key k
SecretPath(k) == args.region \o <<"/">> \o EffectiveName \o <<"/">> \o k
VaultKeysOf(env) == {k \in DOMAIN env : env[k] = IN_VAULT}

(***************************************************************************)
(* C1.  Env merge precedence is base > service-region override > global    *)
(* region defaults, per key: the env of every manifest resolve returns has *)
(* exactly the keys of the three layers, and the value of key k is the     *)
(* base's (as the secrets step left it, when a client was given; the       *)
(* base's own value offline) if the base has k, else the local override's  *)
(* if it has k, else the global one's.                                     *)
(***************************************************************************)
C1_EnvPrecedence ==
  is_some(ret) =>
    LET env == unwrap(ret).env
        afterSecrets(k) ==
          IF is_none(args.vault) THEN Base.env[k]
          ELSE secrets_entry(unwrap(args.vault), args.region, EffectiveName, k, Base.env[k]).res.val
    IN /\ DOMAIN env = DOMAIN Base.env \cup DOMAIN LocalEnv \cup DOMAIN GlobalEnv
       /\ \A k \in DOMAIN env :
            env[k] = IF k \in DOMAIN Base.env THEN afterSecrets(k)
                     ELSE IF k \in DOMAIN LocalEnv THEN LocalEnv[k]
                     ELSE GlobalEnv[k]

\* base {A:1}, local {A:2, B:2}, global {A:3, B:3} resolved to {A:1, B:2}
C1_Witness ==
  /\ is_some(ret)
  /\ \E a, b \in Keys :
       /\ a # b
       /\ DOMAIN Base.env = {a} /\ Base.env[a] = V1
       /\ {a, b} \subseteq DOMAIN LocalEnv /\ LocalEnv[a] = V2 /\ LocalEnv[b] = V2
       /\ {a, b} \subseteq DOMAIN GlobalEnv /\ GlobalEnv[a] = V3
       /\ unwrap(ret).env[a] = V1 /\ unwrap(ret).env[b] = V2

(***************************************************************************)
(* C2.  Secret reads are fail-fast and all-or-nothing: a read is issued    *)
(* only with a client, only for an env key of the base holding IN_VAULT,   *)
(* and at most once per key; a read that fails is the last one, and with   *)
(* it resolve has ended in SecretReadFailure with no merge and no stamp    *)
(* run and no manifest returned.                                           *)
(***************************************************************************)
C2_FailFast ==
  /\ is_none(args.vault) => reads = << >>
  /\ \A i \in 1..Len(reads) :
       /\ \E k \in VaultKeysOf(Base.env) : reads[i] = SecretPath(k)
       /\ \A j \in 1..Len(reads) : reads[i] = reads[j] => i = j
       /\ reads[i] \notin DOMAIN unwrap(args.vault) =>
            /\ i = Len(reads)
            /\ pc = "done"
            /\ outcome = [tag |-> "Err", kind |-> "SecretReadFailure", at |-> "secrets"]
            /\ steps = <<"implicits">>
            /\ ret = None
            /\ vres = Running
  /\ outcome.kind = "SecretReadFailure" =>
       reads # << >> /\ reads[Len(reads)] \notin DOMAIN unwrap(args.vault)

\* the first of two vault keys could not be read: the second was never asked for
C2_Witness ==
  /\ outcome.kind = "SecretReadFailure"
  /\ Len(reads) = 1
  /\ Cardinality(VaultKeysOf(Base.env)) >= 2

(***************************************************************************)
(* C3.  Placeholder substitution.  When the secrets step has run to its    *)
(* end, it has added and removed no env key, and every entry (k, v) of the *)
(* base descriptor holds: the secret read at {region}/{effectiveName}/{k}  *)
(* if v = IN_VAULT; kube-secret-{k lowercased, _ to -} if v is             *)
(* IN_KUBE_SECRETS; the same derivation of the text between the first and  *)
(* the second colon of v (or the end of v) if v starts with                *)
(* IN_KUBE_SECRETS and holds a colon; v itself if v neither is IN_VAULT    *)
(* nor starts with IN_KUBE_SECRETS.                                        *)
(***************************************************************************)
\* "kube-secret-" + x lowercased with underscores replaced by hyphens
KubeRef(x) ==
  <<"k", "u", "b", "e", "-", "s", "e", "c", "r", "e", "t", "-">>
    \o [i \in 1..Len(x) |-> IF x[i] = "_" THEN "-" ELSE char_to_lowercase(x[i])]
Colons(v) == {i \in 1..Len(v) : v[i] = ":"}
Min(S) == CHOOSE x \in S : \A y \in S : x <= y
\* the text of v after its first colon, up to its second colon if it has one
AfterFirstColon(v) ==
  LET c1 == Min(Colons(v))
      later == Colons(v) \ {c1}
  IN SubSeq(v, c1 + 1, IF later = {} THEN Len(v) ELSE Min(later) - 1)
JustAfterSecrets == SecretsDone /\ pc = "merge_locals"

C3_SubstitutionRule ==
  JustAfterSecrets =>
    /\ DOMAIN mf.env = DOMAIN Base.env
    /\ \A k \in DOMAIN Base.env :
         LET v == Base.env[k]
         IN IF v = IN_VAULT
            THEN /\ SecretPath(k) \in DOMAIN unwrap(args.vault)
                 /\ mf.env[k] = unwrap(args.vault)[SecretPath(k)]
            ELSE IF v = kube_prefix THEN mf.env[k] = KubeRef(k)
            ELSE IF starts_with(v, kube_prefix)
            THEN /\ Colons(v) # {}
                 /\ AfterFirstColon(v) # << >>
                 /\ mf.env[k] = KubeRef(AfterFirstColon(v))
            ELSE mf.env[k] = v

\* A_K: IN_KUBE_SECRETS and b: IN_KUBE_SECRETS:a:b, substituted
C3_Witness ==
  /\ JustAfterSecrets
  /\ \E a, b \in DOMAIN Base.env :
       /\ Base.env[a] = kube_prefix /\ a = <<"A", "_", "K">>
       /\ mf.env[a] = <<"k", "u", "b", "e", "-", "s", "e", "c", "r", "e", "t", "-", "a", "-", "k">>
       /\ Base.env[b] = KUBE_TWO
       /\ mf.env[b] = <<"k", "u", "b", "e", "-", "s", "e", "c", "r", "e", "t", "-", "a">>

\* C3 as the spec words it: the subkey is all that follows "IN_KUBE_SECRETS:",
\* and every value of another form is left unchanged
C3_AsClaimed ==
  JustAfterSecrets =>
    /\ DOMAIN mf.env = DOMAIN Base.env
    /\ \A k \in DOMAIN Base.env :
         LET v == Base.env[k]
             p == Len(kube_prefix)
         IN IF v = IN_VAULT
            THEN /\ SecretPath(k) \in DOMAIN unwrap(args.vault)
                 /\ mf.env[k] = unwrap(args.vault)[SecretPath(k)]
            ELSE IF v = kube_prefix THEN mf.env[k] = KubeRef(k)
            ELSE IF Len(v) > p + 1 /\ SubSeq(v, 1, p + 1) = kube_prefix \o <<":">>
            THEN mf.env[k] = KubeRef(SubSeq(v, p + 2, Len(v)))
            ELSE mf.env[k] = v

(***************************************************************************)
(* C4.  An env value that starts with IN_KUBE_SECRETS, holds no colon and  *)
(* is not IN_KUBE_SECRETS itself, or that is "IN_KUBE_SECRETS:" with an    *)
(* empty subkey, makes resolve return InvalidSecretPath: when the secrets  *)
(* loop has stopped at such an entry, the call has ended in that error,    *)
(* not abnormally.                                                         *)
(***************************************************************************)
InvalidKubePlaceholder(v) ==
  /\ starts_with(v, kube_prefix)
  /\ v # kube_prefix
  /\ Colons(v) = {} \/ v = kube_prefix \o <<":">>

C4_InvalidSecretPath ==
  (pc = "done" /\ outcome.at = "secrets" /\ todo # << >>
     /\ InvalidKubePlaceholder(mf.env[Head(todo)]))
    => (outcome.tag = "Err" /\ outcome.kind = "InvalidSecretPath")

(***************************************************************************)
(* C5.  The stamp.  resolve returns a manifest only if the region splits   *)
(* on '-' into exactly two segments (it holds exactly one dash; either     *)
(* segment may be empty), and then namespace is the first segment and      *)
(* location the second; with any other region resolve returns no manifest, *)
(* and the stamp step fails with InvalidRegion, and only then.             *)
(***************************************************************************)
Dashes(r) == {i \in 1..Len(r) : r[i] = "-"}
OneDash(r) == Cardinality(Dashes(r)) = 1
TwoNonEmptySegments(r) == OneDash(r) /\ r[1] # "-" /\ r[Len(r)] # "-"

C5_Stamp ==
  /\ is_some(ret) =>
       /\ OneDash(args.region)
       /\ LET d == Min(Dashes(args.region))
          IN /\ unwrap(ret)._namespace = SubSeq(args.region, 1, d - 1)
             /\ unwrap(ret)._location = SubSeq(args.region, d + 1, Len(args.region))
  /\ (pc = "done" /\ ~OneDash(args.region)) => (ret = None /\ outcome.tag # "Ok")
  /\ (pc = "done" /\ outcome.at = "stamp") =>
       (OneDash(args.region) <=> outcome.tag = "Ok")
  /\ (pc = "done" /\ outcome.at = "stamp" /\ outcome.tag # "Ok") =>
       (outcome.tag = "Err" /\ outcome.kind = "InvalidRegion")
  /\ outcome.kind = "InvalidRegion" => outcome.at = "stamp"

\* region "-u" resolved: namespace "" and location "u"
C5_Witness ==
  /\ is_some(ret)
  /\ args.region = <<"-", "u">>
  /\ unwrap(ret)._namespace = << >>
  /\ unwrap(ret)._location = <<"u">>

\* C5 as the spec words it: both segments are non-empty
C5_AsClaimed ==
  /\ is_some(ret) => TwoNonEmptySegments(args.region)
  /\ (pc = "done" /\ outcome.at = "stamp" /\ ~TwoNonEmptySegments(args.region)) =>
       (outcome.tag = "Err" /\ outcome.kind = "InvalidRegion")

C7_ImageName ==
  steps # << >> =>
    /\ is_some(mf.image)
    /\ unwrap(mf.image).name =
         IF is_some(Base.image) /\ is_some(unwrap(Base.image).name)
         THEN unwrap(Base.image).name
         ELSE Base.name

(***************************************************************************)
(* C8.  Implicit health port.  After the implicits step: with non-empty    *)
(* ports and no health block the manifest has a health block with port =   *)
(* ports[0] and uri and wait unset; a health block without a port gets     *)
(* port = ports[0], uri and wait unchanged; an explicit health.port is     *)
(* never changed; with empty ports the health field is as it was.          *)
(***************************************************************************)
\* the implicits step has run and no later step has changed the manifest's
\* health or ports
OnlyImplicits == steps = <<"implicits">>

C8_ImplicitHealth ==
  OnlyImplicits =>
    LET ports == Base.ports
        h0 == Base.health
        h == mf.health
    IN /\ mf.ports = ports
       /\ ports = << >> => h = h0
       /\ (ports # << >> /\ is_none(h0)) =>
            h = Some([uri |-> None, wait |-> None, port |-> Some(ports[1])])
       /\ (ports # << >> /\ is_some(h0) /\ is_none(unwrap(h0).port)) =>
            h = Some([uri |-> unwrap(h0).uri, wait |-> unwrap(h0).wait,
                      port |-> Some(ports[1])])
       /\ (is_some(h0) /\ is_some(unwrap(h0).port)) => h = h0

\* two ports and no health block: the health port is the first port
C8_Witness ==
  /\ OnlyImplicits
  /\ Len(Base.ports) = 2
  /\ is_none(Base.health)
  /\ mf.health = Some([uri |-> None, wait |-> None, port |-> Some(Base.ports[1])])

(***************************************************************************)
(* C9.  Every manifest a successful resolve returns that has a health      *)
(* block has health.port set, so verify's health rule reaches its uri and  *)
(* wait checks.                                                            *)
(***************************************************************************)
C9_HealthPortSet ==
  /\ (is_some(ret) /\ is_some(unwrap(ret).health)) =>
       is_some(unwrap(unwrap(ret).health).port)
  /\ vres.tag # "Panic"

(***************************************************************************)
(* C10.  Resource bound invariant: whenever verify returns Ok, the parsed  *)
(* quantities of the manifest satisfy request cpu <= limit cpu, request    *)
(* memory <= limit memory, request cpu <= 10, limit cpu <= 20, request     *)
(* memory <= 10 GiB and limit memory <= 20 GiB; and a manifest with        *)
(* requests.cpu = "12" never passes verify.                                *)
(***************************************************************************)
GiB(n) == f64_mul(f64_of(n), 1024, 3)
f64_le(x, y) == ~f64_gt(x, y)

C10_ResourceBounds ==
  /\ vres.tag = "Ok" =>
       /\ is_some(unwrap(ret).resources)
       /\ is_some(unwrap(unwrap(ret).resources).requests)
       /\ is_some(unwrap(unwrap(ret).resources).limits)
       /\ LET req == unwrap(unwrap(unwrap(ret).resources).requests)
              lim == unwrap(unwrap(unwrap(ret).resources).limits)
              req_cpu == parse_cpu(req.cpu)
              lim_cpu == parse_cpu(lim.cpu)
              req_memory == parse_memory(req.memory)
              lim_memory == parse_memory(lim.memory)
          IN /\ \A q \in {req_cpu, lim_cpu, req_memory, lim_memory} : q.tag = "Ok"
             /\ f64_le(req_cpu.val, lim_cpu.val)
             /\ f64_le(req_memory.val, lim_memory.val)
             /\ f64_le(req_cpu.val, f64_of(10))
             /\ f64_le(lim_cpu.val, f64_of(20))
             /\ f64_le(req_memory.val, GiB(10))
             /\ f64_le(lim_memory.val, GiB(20))
  /\ (is_some(ret) /\ is_some(unwrap(ret).resources)
        /\ is_some(unwrap(unwrap(ret).resources).requests)
        /\ unwrap(unwrap(unwrap(ret).resources).requests).cpu = <<"1", "2">>)
       => vres.tag # "Ok"

\* verify passed a manifest at the ceilings: 10 cores requested, 20 the limit
C10_Witness ==
  /\ vres.tag = "Ok"
  /\ unwrap(unwrap(unwrap(ret).resources).requests).cpu = <<"1", "0">>
  /\ unwrap(unwrap(unwrap(ret).resources).limits).cpu = <<"2", "0">>

(***************************************************************************)
(* C11.  validate(service) returns Ok only if the descriptor declares at   *)
(* least one region and a manifest was filled and verified, with success,  *)
(* for every declared region in turn; and validate of a descriptor that    *)
(* declares no region ends in EmptyRegionSet.                              *)
(***************************************************************************)
Declared == Base.regions

C11_ValidateAll ==
  /\ (call = "validate" /\ vout.tag = "Ok") =>
       /\ Declared # << >>
       /\ Len(log) = Len(Declared)
       /\ \A i \in 1..Len(log) : log[i].region = Declared[i]
       /\ vres.tag = "Ok"
  /\ (call = "validate" /\ pc = "done" /\ HasBase /\ Declared = << >>) =>
       (vout.tag = "Err" /\ vout.kind = "EmptyRegionSet")

(***************************************************************************)
(* C12.  Region cross-check.  When verify is given a manifest that passes  *)
(* the name, resources, config and dependency rules, it fails with         *)
(* RegionFileMissing exactly when some declared region, the resolved one   *)
(* or another, has no environments/{region}.yml.  And nothing is retained  *)
(* between runs: when an earlier run on the same descriptor failed with    *)
(* RegionFileMissing and by now every declared region has its file, the    *)
(* manifest passes verify unless it breaks a later rule (empty region set  *)
(* excluded: it declares a region), and validate returns Ok when each      *)
(* region's manifest does.                                                 *)
(***************************************************************************)
PassesRules1to4(m) ==
  /\ is_some(m.name) /\ unwrap(m.name) # << >>
  /\ verify_resources_block(m.resources).tag = "Ok"
  /\ verify_configs(m.configs).tag = "Ok"
  /\ verify_dependencies(m.dependencies, fs.dirs).tag = "Ok"
PassesLaterRules(m) ==
  /\ verify_init_containers(m.init_containers).tag = "Ok"
  /\ verify_health(m.health).tag = "Ok"
MissingRegionFile(m, disk) ==
  \E i \in 1..Len(m.regions) : m.regions[i] \notin DOMAIN disk.globals
FailedOnRegionFile(p) == p.vres.kind = "RegionFileMissing"

InMerge == pc \in {"merge_locals", "merge_globals"}
\* the override file the merge step at hand reads, None when there is none
MergedFile ==
  IF pc = "merge_locals"
  THEN IF <<unwrap(mf.name), args.region>> \in DOMAIN fs.locals
       THEN Some(fs.locals[<<unwrap(mf.name), args.region>>]) ELSE None
  ELSE IF args.region \in DOMAIN fs.globals
       THEN Some(fs.globals[args.region]) ELSE None
MergeEndedNormally == pc' # "done"
\* field f of the manifest is kept if present, else adopted from the override
FillsIfAbsent(absent, before, after, offered) ==
  after = IF absent /\ is_some(MergedFile) THEN offered ELSE before

C13_MergeStep ==
  InMerge =>
    /\ is_some(mf.resources) => (MergeEndedNormally /\ mf'.resources = mf.resources)
    /\ MergeEndedNormally =>
         /\ is_none(mf.resources) =>
              mf'.resources = IF is_some(MergedFile) THEN unwrap(MergedFile).resources
                              ELSE None
         /\ FillsIfAbsent(is_none(mf.replicas), mf.replicas, mf'.replicas,
                          unwrap(MergedFile).replicas)
         /\ FillsIfAbsent(mf.volume_mounts = << >>, mf.volume_mounts, mf'.volume_mounts,
                          unwrap(MergedFile).volume_mounts)
         /\ FillsIfAbsent(mf.init_containers = << >>, mf.init_containers,
                          mf'.init_containers, unwrap(MergedFile).init_containers)
         /\ FillsIfAbsent(mf.volumes = << >>, mf.volumes, mf'.volumes,
                          unwrap(MergedFile).volumes)

C13_MergeFillsOnlyAbsent == [][C13_MergeStep]_vars

(***************************************************************************)
(* C14.  Resolution is idempotent and regions are independent.  A run      *)
(* without a secret client that follows a run on the same, unchanged       *)
(* descriptor set ends as that run did: the same manifest returned, the    *)
(* same results, and in validate the same manifests verified.  And every   *)
(* manifest validate passes to verify for a region r is the manifest an    *)
(* offline resolve of r alone makes of the descriptor (implicits, the      *)
(* merge of r's local and global overrides where they exist, the stamp),   *)
(* whichever regions came before r.                                        *)
(***************************************************************************)
\* merge of an override that may not exist
MergeIfPresent(m, files, key) ==
  IF key \in DOMAIN files THEN merge(m, Some(files[key])) ELSE Ok(m)
\* what resolving descriptor m for region r alone, offline, returns
OfflineResolve(m, r, disk) ==
  LET i == implicits(m)
  IN IF i.tag # "Ok" THEN i
     ELSE LET l == MergeIfPresent(i.val, disk.locals, <<unwrap(i.val.name), r>>)
          IN IF l.tag # "Ok" THEN l
             ELSE LET g == MergeIfPresent(l.val, disk.globals, r)
                  IN IF g.tag # "Ok" THEN g ELSE stamp(g.val, r)

C14_Independent ==
  /\ \A i \in 1..Len(prev) :
       (pc = "done" /\ is_none(args.vault) /\ prev[i].fs = fs) =>
         /\ prev[i].ret = ret
         /\ prev[i].outcome = outcome
         /\ prev[i].vres = vres
         /\ prev[i].vout = vout
         /\ prev[i].log = log
  /\ call = "validate" =>
       \A j \in 1..Len(log) :
         /\ log[j].region = Declared[j]
         /\ OfflineResolve(Base, log[j].region, fs) = Ok(log[j].mf)

\* validate verified two regions whose manifests differ, and did so twice
C14_Witness ==
  /\ call = "validate"
  /\ pc = "done"
  /\ Len(log) = 2
  /\ log[1].mf.env # log[2].mf.env
  /\ log[1].mf.volumes # log[2].mf.volumes
  /\ prev # << >>
  /\ prev[1].fs = fs
  /\ prev[1].log = log

(***************************************************************************)
(* C15.  verify is total on resolved manifests: whenever verify was called *)
(* on a manifest a successful resolve returned, with or without a complete *)
(* resources block, it returned Ok or an error.                            *)
(***************************************************************************)
C15_VerifyTotal ==
  (is_some(ret) /\ vres # Running) => vres.tag \in {"Ok", "Err"}

(***************************************************************************)
(* C16.  verify reports the first failure in rule order: whenever verify   *)
(* returns, what it returns is the finding of the lowest-numbered rule the *)
(* manifest breaks, in the order name, resources, config block,            *)
(* dependencies, missing region file, empty region set, init containers,   *)
(* health uri, health wait; and Ok if it breaks none.  What the rules      *)
(* after that one find has no influence.                                   *)
(***************************************************************************)
RuleFinding(broken, kind) == IF broken THEN Err(kind) ELSE Ok(<< >>)
\* what each rule, taken alone, finds in manifest m
RuleFindings(m, disk) ==
  << RuleFinding(is_none(m.name) \/ unwrap(m.name) = << >>, "NameEmpty"),
     verify_resources_block(m.resources),
     verify_configs(m.configs),
     verify_dependencies(m.dependencies, disk.dirs),
     RuleFinding(MissingRegionFile(m, disk), "RegionFileMissing"),
     RuleFinding(m.regions = << >>, "EmptyRegionSet"),
     verify_init_containers(m.init_containers),
     RuleFinding(is_some(m.health) /\ is_none(unwrap(m.health).uri),
                 "HealthCheckIncomplete: uri"),
     RuleFinding(is_some(m.health) /\ is_none(unwrap(m.health).wait),
                 "HealthCheckIncomplete: wait") >>
Broken(findings) == {i \in 1..Len(findings) : findings[i].tag # "Ok"}
LowestBroken(findings) ==
  IF Broken(findings) = {} THEN Ok(<< >>) ELSE findings[Min(Broken(findings))]

C16_FirstFailure ==
  (vres # Running /\ vres.tag # "Panic") =>
    LET expected == LowestBroken(RuleFindings(unwrap(ret), fs))
    IN vres = [tag |-> expected.tag, kind |-> expected.kind, at |-> "verify"]

\* a manifest that breaks the dependency, region, init container and health
\* rules at once: verify reported the dependency
C16_Witness ==
  /\ vres = [tag |-> "Err", kind |-> "DependencyNotFound", at |-> "verify"]
  /\ {4, 5, 7, 8, 9} \subseteq Broken(RuleFindings(unwrap(ret), fs))

(***************************************************************************)
(* C17.  Secret substitution runs once per resolve that has a client (and  *)
(* never without one), right after implicits, before either merge and      *)
(* before the region format is checked: the steps of a resolve are taken   *)
(* in the order implicits, secrets, merge of the local override, merge of  *)
(* the global override, stamp, each at most once; with a client no merge   *)
(* and no stamp, failed or not, comes before the end of the secrets step;  *)
(* only env keys of the base descriptor are read from the client; and an   *)
(* env entry that an override layer contributes is in the resolved         *)
(* manifest as the override wrote it, placeholder or not, client or not.   *)
(***************************************************************************)
StepRank(st) ==
  CASE st = "implicits" -> 1
    [] st = "secrets" -> 2
    [] st = "merge_locals" -> 3
    [] st = "merge_globals" -> 4
    [] st = "stamp" -> 5
PastSecrets == pc \in {"merge_locals", "merge_globals", "stamp", "verify"}
IsPlaceholder(v) == v = IN_VAULT \/ starts_with(v, kube_prefix)

C17_SecretsOnce ==
  /\ \A i, j \in 1..Len(steps) : i < j => StepRank(steps[i]) < StepRank(steps[j])
  /\ is_none(args.vault) => \A i \in 1..Len(steps) : steps[i] # "secrets"
  /\ (is_some(args.vault)
        /\ (PastSecrets \/ outcome.at \in {"merge_locals", "merge_globals", "stamp"}))
       => (Len(steps) >= 2 /\ steps[1] = "implicits" /\ steps[2] = "secrets")
  /\ \A i \in 1..Len(reads) : \E k \in DOMAIN Base.env : reads[i] = SecretPath(k)
  /\ is_some(ret) =>
       \A k \in DOMAIN unwrap(ret).env \ DOMAIN Base.env :
         unwrap(ret).env[k] = IF k \in DOMAIN LocalEnv THEN LocalEnv[k] ELSE GlobalEnv[k]

\* with a client: the base's vault placeholder was replaced by the secret,
\* the kube placeholder of the local override was carried as written
C17_Witness ==
  /\ is_some(ret)
  /\ is_some(args.vault)
  /\ steps = <<"implicits", "secrets", "merge_locals", "merge_globals", "stamp">>
  /\ \E a, b \in Keys :
       /\ DOMAIN Base.env = {a} /\ Base.env[a] = IN_VAULT
       /\ unwrap(ret).env[a] = unwrap(args.vault)[SecretPath(a)]
       /\ b \in DOMAIN LocalEnv /\ LocalEnv[b] = kube_prefix
       /\ b \in DOMAIN GlobalEnv /\ GlobalEnv[b] = IN_VAULT
       /\ unwrap(ret).env[b] = kube_prefix

=============================================================================
